---- MODULE Spec2Model ----
(***************************************************************************)
(* Model of xilem/src/lib.rs: the Xilem entry points (new, run_windowed_in, *)
(* into_driver), the ViewCtx (path stack, action-routing table, debug flag) *)
(* and the Pod upcast/downcast bridge, together with the view protocol and  *)
(* the driver cycle that call into them.                                    *)
(***************************************************************************)
EXTENDS Integers, Sequences, FiniteSets, TLC

VARIABLES
    pc,               \* position of the program: see PcValues
    result,           \* what the top-level entry point handed to its caller
    resource_failure, \* which resource-class failure happened, if any
    debug_assertions, \* cfg!(debug_assertions) of the build
    ctx,              \* the ViewCtx: widget_map, id_path, view_tree_changed
    state,            \* the application state (Xilem.state / MasonryDriver.state)
    current_view,     \* MasonryDriver.current_view, the retained view tree
    next_view,        \* the view the running pass rebuilds to
    elems,            \* the retained element tree: path -> element
    next_id,          \* the toolkit's identity counter
    queue,            \* inbound events, in delivery order
    tasks,            \* async tasks in flight (identity of the originating widget)
    phase,            \* position of the driver's callback: see PhaseValues
    pending,          \* the context calls the running pass still has to make
    entry_len,        \* Len(ctx.id_path) at the entry of the running call
    fault,            \* a panic has been raised
    registered,       \* history: identities registered and not yet torn down
    logic_invoked,    \* history: application logic has run
    last,             \* history: what the last step did
    unmatched_pop,    \* history: a pop_id ran with no matching push_id
    snap              \* history: the routing table when the pass entered the current slot

vars == <<pc, result, resource_failure, debug_assertions, ctx, state, current_view,
          next_view, elems, next_id, queue, tasks, phase, pending, entry_len, fault,
          registered, logic_invoked, last, unmatched_pop, snap>>

(***************************************************************************)
(* Bounds of the model.                                                     *)
(***************************************************************************)
MaxWidgetId == 3     \* identities the toolkit hands out before the model stops
MaxQueue == 2        \* events waiting for delivery
MaxPathLen == 2      \* path depth explored by the direct-call specification
MaxApiId == 2        \* identities used by the direct-call specification
MaxTasks == 1        \* async tasks in flight
MaxInFlight == 1     \* events in flight in the identity-reuse specification
MaxVal == 2          \* largest content value of a widget in the element-bridge specification

WidgetIds == 1..MaxWidgetId
ApiIds == 1..MaxApiId
Slots == {1, 2}
Kinds == {"A", "B", "N"}
\* Slot 1 holds a button or a container, slot 2 a button or nothing.
Views == {v \in [Slots -> Kinds] : v[1] # "N" /\ v[2] # "B"}
NoView == [s \in Slots |-> "N"]
ViewIds == {1, 2}

PcValues == {"start", "constructed", "panicked", "failed", "running", "aborted",
             "direct"}
PhaseValues == {"idle", "pass", "unwind"}

(***************************************************************************)
(* HashMap<WidgetId, Vec<ViewId>>                                           *)
(***************************************************************************)
EmptyMap == [k \in {} |-> <<>>]

insert(m, k, v) == [x \in (DOMAIN m) \cup {k} |-> IF x = k THEN v ELSE m[x]]

remove(m, k) == [x \in (DOMAIN m) \ {k} |-> m[x]]

(***************************************************************************)
(* ViewCtx and its methods.  A context is the record                        *)
(*   [widget_map, id_path, view_tree_changed, proxy, runtime].              *)
(***************************************************************************)
NewViewCtx(proxy, runtime) ==
    [widget_map |-> EmptyMap, id_path |-> <<>>, view_tree_changed |-> FALSE,
     proxy |-> proxy, runtime |-> runtime]

push_id(c, id) == [c EXCEPT !.id_path = Append(@, id)]

\* Faulty variant: the pop is forgotten.
pop_id_forgotten(c) == c

\* Vec::pop on an empty vector returns None and leaves the vector empty.
pop_id(c) ==
    [c EXCEPT !.id_path = IF Len(@) = 0 THEN @ ELSE SubSeq(@, 1, Len(@) - 1)]

\* Whether pop_id panics on the context c: the returned Option is discarded.
pop_id_panics(c) == FALSE

view_path(c) == c.id_path

\* Faulty variant: the flag is set in every build configuration.
mark_changed_unconditional(c) == [c EXCEPT !.view_tree_changed = TRUE]

mark_changed(c) ==
    IF debug_assertions THEN [c EXCEPT !.view_tree_changed = TRUE] ELSE c

\* Faulty variant: the path of the parent is stored instead of the current path.
with_action_widget_parent_path(c, value) ==
    [c EXCEPT !.widget_map =
        insert(@, value.id,
               IF Len(c.id_path) = 0 THEN <<1>> ELSE SubSeq(c.id_path, 1, Len(c.id_path) - 1))]

\* c is the context after the closure f ran, value the Pod it returned.
with_action_widget(c, value) ==
    [c EXCEPT !.widget_map = insert(@, value.id, c.id_path)]

with_leaf_action_widget(c, value) == with_action_widget(c, value)

\* Faulty variant: the entry is left in the table.
teardown_leaf_forgets(c, widget) == c

\* Faulty variant: the whole table is cleared.
teardown_leaf_clears(c, widget) == [c EXCEPT !.widget_map = EmptyMap]

\* Faulty variant: the entry is removed and the path stack is popped as well.
teardown_leaf_pops(c, widget) ==
    [c EXCEPT !.widget_map = remove(@, widget.id),
              !.id_path = IF Len(@) = 0 THEN @ ELSE SubSeq(@, 1, Len(@) - 1)]

\* Faulty variant: an entry is removed only when it is the last one.
teardown_leaf_last_only(c, widget) ==
    IF DOMAIN c.widget_map = {widget.id} THEN [c EXCEPT !.widget_map = EmptyMap] ELSE c

teardown_leaf(c, widget) == [c EXCEPT !.widget_map = remove(@, widget.id)]

runtime(c) == c.runtime

proxy(c) == c.proxy

(***************************************************************************)
(* Pod: the owned handle of one widget.  WidgetPod::new draws the widget's  *)
(* identity from the toolkit's counter.                                     *)
(***************************************************************************)
Pod(id, ty) == [id |-> id, ty |-> ty]

Element(pod) == [id |-> pod.id, ty |-> pod.ty, st |-> "Built"]

ActionCapable(e) == e.ty = "Button"

(***************************************************************************)
(* The view protocol.  The root is a container of one slot per element of   *)
(* Slots; slot i is reached through ViewId i and holds one of the variants  *)
(*   "A": a button (an action widget),                                      *)
(*   "B": a container of a button (ViewId 1) and a label (ViewId 2),        *)
(*   "N": nothing.                                                          *)
(* A traversal is the sequence of context calls it makes, in order.         *)
(***************************************************************************)
Op(name, id) == [op |-> name, id |-> id]

WithId(id, ops) == <<Op("push_id", id)>> \o ops \o <<Op("pop_id", 0)>>

BuildOps(k) ==
    CASE k = "A" -> <<Op("build_action", 0)>>
      [] k = "B" -> WithId(1, <<Op("build_action", 0)>>)
                    \o WithId(2, <<Op("build_plain", 0)>>)
      [] OTHER -> <<>>

\* Faulty variant: the rebuild of an unchanged view still reports a change.
RebuildSameOps_marks(k) ==
    CASE k = "A" -> <<Op("rebuild", 0), Op("mark_changed", 0)>>
      [] k = "B" -> WithId(1, <<Op("rebuild", 0)>>) \o WithId(2, <<Op("rebuild", 0)>>)
                    \o <<Op("mark_changed", 0)>>
      [] OTHER -> <<>>

RebuildSameOps(k) ==
    CASE k = "A" -> <<Op("rebuild", 0)>>
      [] k = "B" -> WithId(1, <<Op("rebuild", 0)>>) \o WithId(2, <<Op("rebuild", 0)>>)
      [] OTHER -> <<>>

TeardownOps(k) ==
    CASE k = "A" -> <<Op("teardown_leaf", 0)>>
      [] k = "B" -> WithId(1, <<Op("teardown_leaf", 0)>>)
                    \o WithId(2, <<Op("teardown_plain", 0)>>)
      [] OTHER -> <<>>

\* The sum-of-variants rebuild of one slot: same variant, or tear down the old
\* variant, drop its element, build the new one and mark the tree changed.
OneOfRebuildOps(prev, new) ==
    IF prev = new
    THEN RebuildSameOps(new)
    ELSE TeardownOps(prev)
         \o (IF prev = "N" THEN <<>> ELSE <<Op("drop", 0)>>)
         \o BuildOps(new) \o <<Op("mark_changed", 0)>>

RootBuildOps(v) == WithId(1, BuildOps(v[1])) \o WithId(2, BuildOps(v[2]))

RootRebuildOps(prev, new) ==
    WithId(1, OneOfRebuildOps(prev[1], new[1]))
    \o WithId(2, OneOfRebuildOps(prev[2], new[2]))

IsBuild(o) == o.op \in {"build_action", "build_plain"}

NumBuilds(ops) == Cardinality({i \in 1..Len(ops) : IsBuild(ops[i])})

\* Application logic: the view tree is a function of the application state.
logic(s) == s

IsPrefix(p, q) == Len(p) <= Len(q) /\ SubSeq(q, 1, Len(p)) = p

(***************************************************************************)
(* One context call of a traversal, on the world                            *)
(*   w = [ctx, elems, next_id, registered, fault, unmatched_pop].           *)
(* ok = FALSE: the closure that constructs the widget panics.               *)
(***************************************************************************)
World(c, e, n, r, f, u) ==
    [ctx |-> c, elems |-> e, next_id |-> n, registered |-> r, fault |-> f,
     unmatched_pop |-> u]

ExecPushId(w, id) == [w EXCEPT !.ctx = push_id(w.ctx, id)]

ExecPopId(w) ==
    [w EXCEPT !.ctx = pop_id(w.ctx),
              !.fault = @ \/ pop_id_panics(w.ctx),
              !.unmatched_pop = @ \/ Len(w.ctx.id_path) = 0]

ExecBuildAction(w, ok) ==
    IF ~ok
    THEN [w EXCEPT !.fault = TRUE]
    ELSE LET value == Pod(w.next_id, "Button")
         IN [w EXCEPT !.ctx = with_leaf_action_widget(w.ctx, value),
                      !.elems = insert(@, w.ctx.id_path, Element(value)),
                      !.next_id = @ + 1,
                      !.registered = @ \cup {value.id}]

ExecBuildPlain(w, ok) ==
    IF ~ok
    THEN [w EXCEPT !.fault = TRUE]
    ELSE LET value == Pod(w.next_id, "Label")
         IN [w EXCEPT !.elems = insert(@, w.ctx.id_path, Element(value)),
                      !.next_id = @ + 1]

ExecTeardownLeaf(w) ==
    LET widget == w.elems[w.ctx.id_path]
    IN [w EXCEPT !.ctx = teardown_leaf(w.ctx, widget),
                 !.elems[w.ctx.id_path].st = "TornDown",
                 !.registered = @ \ {widget.id}]

ExecTeardownPlain(w) == [w EXCEPT !.elems[w.ctx.id_path].st = "TornDown"]

ExecDrop(w) ==
    [w EXCEPT !.elems = [p \in {q \in DOMAIN w.elems : ~IsPrefix(w.ctx.id_path, q)}
                            |-> w.elems[p]]]

ExecMarkChanged(w) == [w EXCEPT !.ctx = mark_changed(w.ctx)]

Exec(w, o, ok) ==
    CASE o.op = "push_id" -> ExecPushId(w, o.id)
      [] o.op = "pop_id" -> ExecPopId(w)
      [] o.op = "build_action" -> ExecBuildAction(w, ok)
      [] o.op = "build_plain" -> ExecBuildPlain(w, ok)
      [] o.op = "teardown_leaf" -> ExecTeardownLeaf(w)
      [] o.op = "teardown_plain" -> ExecTeardownPlain(w)
      [] o.op = "drop" -> ExecDrop(w)
      [] o.op = "mark_changed" -> ExecMarkChanged(w)
      [] OTHER -> w

\* The guaranteed pops of a traversal that a panic cuts short.
RECURSIVE UnwindTo(_, _)
UnwindTo(w, n) ==
    IF Len(w.ctx.id_path) <= n THEN w ELSE UnwindTo(ExecPopId(w), n)

\* A whole traversal; the widget constructed by call number failAt panics
\* (failAt = 0: none does).
RECURSIVE RunOps(_, _, _, _)
RunOps(w, ops, i, failAt) ==
    IF i > Len(ops) THEN w
    ELSE LET w2 == Exec(w, ops[i], i # failAt)
         IN IF w2.fault THEN w2 ELSE RunOps(w2, ops, i + 1, failAt)

(***************************************************************************)
(* Xilem::new, Xilem::run_windowed_in, Xilem::into_driver                   *)
(***************************************************************************)
Did(op, id, res) == [op |-> op, id |-> id, res |-> res]

CurWorld == World(ctx, elems, next_id, registered, fault, unmatched_pop)

SetWorld(w) ==
    /\ ctx' = w.ctx
    /\ elems' = w.elems
    /\ next_id' = w.next_id
    /\ registered' = w.registered
    /\ fault' = w.fault
    /\ unmatched_pop' = w.unmatched_pop

\* Before into_driver there is no context: ctx holds a placeholder that
\* into_driver replaces by the context it constructs.
Init ==
    /\ pc = "start"
    /\ result = "none"
    /\ resource_failure = "none"
    /\ debug_assertions \in BOOLEAN
    /\ ctx = NewViewCtx("none", "none")
    /\ state \in Views
    /\ current_view = NoView
    /\ next_view = NoView
    /\ elems = EmptyMap
    /\ next_id = 1
    /\ queue = <<>>
    /\ tasks = {}
    /\ phase = "idle"
    /\ pending = <<>>
    /\ entry_len = 0
    /\ fault = FALSE
    /\ registered = {}
    /\ logic_invoked = FALSE
    /\ last = Did("init", 0, "")
    /\ unmatched_pop = FALSE
    /\ snap = EmptyMap

\* Xilem::new: tokio::runtime::Runtime::new().unwrap()
New ==
    /\ pc = "start"
    /\ \E runtime_ok \in BOOLEAN :
          IF runtime_ok
          THEN /\ pc' = "constructed"
               /\ UNCHANGED <<result, resource_failure>>
          ELSE /\ pc' = "panicked"
               /\ result' = "panic"
               /\ resource_failure' = "runtime"
    /\ last' = Did("new", 0, "")
    /\ UNCHANGED <<debug_assertions, ctx, state, current_view, next_view, elems,
                   next_id, queue, tasks, phase, pending, entry_len, fault,
                   registered, logic_invoked, unmatched_pop, snap>>

\* Faulty variant: logic is invoked again and its view built a second time
\* with the context of the first build.
into_driver_twice(prx, failAt) ==
    LET first_view == logic(state)
        c == NewViewCtx(prx, "tokio")
        w0 == World(c, EmptyMap, next_id, {}, FALSE, FALSE)
        w1 == RunOps(w0, RootBuildOps(first_view), 1, failAt)
        w2 == IF w1.fault THEN w1 ELSE RunOps(w1, RootBuildOps(logic(state)), 1, 0)
    IN [first_view |-> first_view, logic_calls |-> 2]
       @@ (IF w2.fault THEN UnwindTo(w2, 0) ELSE w2)

\* The world into_driver leaves: logic is invoked, a fresh ViewCtx is made and
\* the first view is built with it; first_view is the view the driver keeps
\* and logic_calls the number of times logic was invoked.
into_driver(prx, failAt) ==
    LET first_view == logic(state)
        c == NewViewCtx(prx, "tokio")
        w0 == World(c, EmptyMap, next_id, {}, FALSE, FALSE)
        w1 == RunOps(w0, RootBuildOps(first_view), 1, failAt)
    IN [first_view |-> first_view, logic_calls |-> 1]
       @@ (IF w1.fault THEN UnwindTo(w1, 0) ELSE w1)

\* Xilem::run_windowed_in: event_loop.build()?, then into_driver, then run_with.
RunWindowedIn ==
    /\ pc = "constructed"
    /\ \E loop_ok \in BOOLEAN :
          IF ~loop_ok
          THEN /\ pc' = "failed"
               /\ result' = "Err(EventLoopError)"
               /\ resource_failure' = "event_loop"
               /\ last' = Did("run_windowed_in", 0, "")
               /\ UNCHANGED <<ctx, elems, next_id, registered, fault, unmatched_pop,
                              current_view, logic_invoked>>
          ELSE \E failAt \in {0} \cup {i \in 1..Len(RootBuildOps(logic(state))) :
                                         IsBuild(RootBuildOps(logic(state))[i])} :
                 LET w == into_driver("MasonryProxy", failAt)
                 IN /\ SetWorld(w)
                    /\ logic_invoked' = (w.logic_calls > 0)
                    /\ last' = Did("run_windowed_in", w.logic_calls, "")
                    /\ IF w.fault
                       THEN /\ pc' = "aborted"
                            /\ result' = "panic"
                            /\ UNCHANGED current_view
                       ELSE /\ pc' = "running"
                            /\ current_view' = w.first_view
                            /\ UNCHANGED result
                    /\ UNCHANGED resource_failure
    /\ UNCHANGED <<debug_assertions, state, next_view, queue, tasks, phase, pending,
                   entry_len, snap>>

(***************************************************************************)
(* Inbound events.  The toolkit reports an action of a live action widget   *)
(* on the mutation thread; a task finishing on a runtime thread submits its *)
(* result through the proxy.  Both only append to the queue.                *)
(***************************************************************************)
Event(src, id) == [src |-> src, id |-> id]

DeliverOp(e) == IF e.src = "async" THEN "deliver_async" ELSE "deliver_toolkit"

DeliverOps == {"deliver_async", "deliver_toolkit"}

LiveActionIds ==
    {elems[p].id : p \in {q \in DOMAIN elems :
                            elems[q].st = "Built" /\ ActionCapable(elems[q])}}

Frame == <<pc, result, resource_failure, debug_assertions, logic_invoked, snap>>

ToolkitEvent ==
    /\ pc = "running" /\ phase = "idle"
    /\ Len(queue) < MaxQueue
    /\ \E id \in LiveActionIds :
          /\ queue' = Append(queue, Event("toolkit", id))
          /\ last' = Did("toolkit_event", id, "")
    /\ UNCHANGED <<Frame, ctx, state, current_view, next_view, elems, next_id, tasks,
                   phase, pending, entry_len, fault, registered, unmatched_pop>>

\* A runtime thread: it holds only the proxy handed out by ViewCtx::proxy.
TaskComplete ==
    /\ pc = "running"
    /\ Len(queue) < MaxQueue
    /\ proxy(ctx) = "MasonryProxy"
    /\ \E id \in tasks :
          /\ queue' = Append(queue, Event("async", id))
          /\ tasks' = tasks \ {id}
          /\ last' = Did("task_complete", id, "")
    /\ UNCHANGED <<Frame, ctx, state, current_view, next_view, elems, next_id,
                   phase, pending, entry_len, fault, registered, unmatched_pop>>

(***************************************************************************)
(* The driver: one event at a time.  The identity is looked up in the       *)
(* routing table; the path found is routed down the retained view tree.     *)
(***************************************************************************)
\* Faulty variant: the driver takes the next event while a pass is running.
DriverIdle_reentrant == phase \in {"idle", "pass"}

\* The driver takes the next event only when no pass is running.
DriverIdle == phase = "idle"

Lookup(id) == IF id \in DOMAIN ctx.widget_map THEN <<ctx.widget_map[id]>> ELSE <<>>

\* View::message along path: the leaf there handles it, or the path is stale.
Routes(path) ==
    /\ path \in DOMAIN elems
    /\ elems[path].st = "Built"
    /\ ActionCapable(elems[path])

DeliverStale ==
    /\ pc = "running" /\ DriverIdle
    /\ queue # <<>>
    /\ LET e == Head(queue)
       IN /\ \/ Lookup(e.id) = <<>>
             \/ Lookup(e.id) # <<>> /\ ~Routes(Lookup(e.id)[1])
          /\ last' = Did(DeliverOp(e), e.id, "Stale")
    /\ queue' = Tail(queue)
    /\ UNCHANGED <<Frame, ctx, state, current_view, next_view, elems, next_id, tasks,
                   phase, pending, entry_len, fault, registered, unmatched_pop>>

\* The handler runs and reports Nop; it may have submitted a task.
DeliverNop ==
    /\ pc = "running" /\ DriverIdle
    /\ queue # <<>>
    /\ LET e == Head(queue)
       IN /\ Lookup(e.id) # <<>> /\ Routes(Lookup(e.id)[1])
          /\ \E spawn \in BOOLEAN :
                /\ spawn => Cardinality(tasks) < MaxTasks /\ runtime(ctx) = "tokio"
                /\ tasks' = IF spawn THEN tasks \cup {e.id} ELSE tasks
          /\ last' = Did(DeliverOp(e), e.id, "Nop")
    /\ queue' = Tail(queue)
    /\ UNCHANGED <<Frame, ctx, state, current_view, next_view, elems, next_id,
                   phase, pending, entry_len, fault, registered, unmatched_pop>>

\* The handler mutates the application state and may submit a task: logic
\* runs again and the rebuild pass against the retained view begins.
DeliverRebuild ==
    /\ pc = "running" /\ DriverIdle
    /\ queue # <<>>
    /\ LET e == Head(queue)
       IN /\ Lookup(e.id) # <<>> /\ Routes(Lookup(e.id)[1])
          /\ last' = Did(DeliverOp(e), e.id, "RequestRebuild")
    /\ \E s \in Views :
          /\ next_id + NumBuilds(RootRebuildOps(current_view, logic(s)))
                <= MaxWidgetId + 1
          /\ state' = s
          /\ next_view' = logic(s)
          /\ pending' = RootRebuildOps(current_view, logic(s))
    /\ \E spawn \in BOOLEAN :
          /\ spawn => Cardinality(tasks) < MaxTasks /\ runtime(ctx) = "tokio"
          /\ tasks' = IF spawn THEN tasks \cup {Head(queue).id} ELSE tasks
    /\ queue' = Tail(queue)
    /\ phase' = "pass"
    /\ entry_len' = Len(view_path(ctx))
    /\ UNCHANGED <<Frame, ctx, current_view, elems, next_id, fault, registered,
                   unmatched_pop>>

(***************************************************************************)
(* The steps of a pass: each is one call on the context.                    *)
(***************************************************************************)
AtOp(name) == pc = "running" /\ phase = "pass" /\ pending # <<>> /\ Head(pending).op = name

PassFrame == <<pc, result, resource_failure, debug_assertions, logic_invoked, state,
               current_view, next_view, queue, tasks, entry_len>>

Advance(w, name) ==
    /\ SetWorld(w)
    /\ last' = Did(name, 0, IF w.fault THEN "panic" ELSE "")
    /\ IF w.fault
       THEN phase' = "unwind" /\ pending' = <<>>
       ELSE phase' = "pass" /\ pending' = Tail(pending)
    /\ snap' = IF name = "push_id" /\ Len(view_path(ctx)) = entry_len
               THEN ctx.widget_map ELSE snap
    /\ UNCHANGED PassFrame

PushId == AtOp("push_id") /\ Advance(ExecPushId(CurWorld, Head(pending).id), "push_id")

PopId == AtOp("pop_id") /\ Advance(ExecPopId(CurWorld), "pop_id")

WithActionWidget ==
    /\ AtOp("build_action")
    /\ \E ok \in BOOLEAN : Advance(ExecBuildAction(CurWorld, ok), "build_action")

BuildPlain ==
    /\ AtOp("build_plain")
    /\ \E ok \in BOOLEAN : Advance(ExecBuildPlain(CurWorld, ok), "build_plain")

RebuildLeaf == AtOp("rebuild") /\ Advance(CurWorld, "rebuild")

TeardownLeaf == AtOp("teardown_leaf") /\ Advance(ExecTeardownLeaf(CurWorld), "teardown_leaf")

TeardownPlain ==
    AtOp("teardown_plain") /\ Advance(ExecTeardownPlain(CurWorld), "teardown_plain")

DropElement == AtOp("drop") /\ Advance(ExecDrop(CurWorld), "drop")

MarkChanged == AtOp("mark_changed") /\ Advance(ExecMarkChanged(CurWorld), "mark_changed")

\* The pass returned: the new view becomes the retained one.
EndPass ==
    /\ pc = "running" /\ phase = "pass" /\ pending = <<>>
    /\ current_view' = next_view
    /\ phase' = "idle"
    /\ last' = Did("end_pass", 0, "")
    /\ UNCHANGED <<Frame, ctx, state, next_view, elems, next_id, queue, tasks, pending,
                   entry_len, fault, registered, unmatched_pop>>

\* A panic leaves the pass: the pops still owed are made, then the cycle aborts.
Unwind ==
    /\ pc = "running" /\ phase = "unwind"
    /\ IF Len(view_path(ctx)) > entry_len
       THEN /\ SetWorld(ExecPopId(CurWorld))
            /\ last' = Did("pop_id", 0, "unwinding")
            /\ UNCHANGED <<pc, result, phase>>
       ELSE /\ pc' = "aborted"
            /\ result' = "panic"
            /\ phase' = "idle"
            /\ last' = Did("abort", 0, "panic")
            /\ UNCHANGED <<ctx, elems, next_id, registered, fault, unmatched_pop>>
    /\ UNCHANGED <<resource_failure, debug_assertions, logic_invoked, state,
                   current_view, next_view, queue, tasks, pending, entry_len, snap>>

Next ==
    \/ New
    \/ RunWindowedIn
    \/ ToolkitEvent
    \/ TaskComplete
    \/ DeliverStale
    \/ DeliverNop
    \/ DeliverRebuild
    \/ PushId
    \/ PopId
    \/ WithActionWidget
    \/ BuildPlain
    \/ RebuildLeaf
    \/ TeardownLeaf
    \/ TeardownPlain
    \/ DropElement
    \/ MarkChanged
    \/ EndPass
    \/ Unwind

Spec == Init /\ [][Next]_vars

(***************************************************************************)
(* Direct calls: the methods of ViewCtx are public, and any view            *)
(* implementation may call them in any order on the driver's context.       *)
(***************************************************************************)
InitApi ==
    /\ pc = "direct"
    /\ result = "none"
    /\ resource_failure = "none"
    /\ debug_assertions \in BOOLEAN
    /\ ctx = NewViewCtx("MasonryProxy", "tokio")
    /\ state = NoView
    /\ current_view = NoView
    /\ next_view = NoView
    /\ elems = EmptyMap
    /\ next_id = 1
    /\ queue = <<>>
    /\ tasks = {}
    /\ phase = "idle"
    /\ pending = <<>>
    /\ entry_len = 0
    /\ fault = FALSE
    /\ registered = {}
    /\ logic_invoked = FALSE
    /\ last = Did("init", 0, "")
    /\ unmatched_pop = FALSE
    /\ snap = EmptyMap

ApiFrame == <<pc, result, resource_failure, debug_assertions, state, current_view,
              next_view, elems, next_id, queue, tasks, phase, pending, entry_len,
              logic_invoked, snap>>

ApiPushId ==
    /\ pc = "direct"
    /\ Len(view_path(ctx)) < MaxPathLen
    /\ \E id \in ViewIds :
          /\ ctx' = push_id(ctx, id)
          /\ last' = Did("push_id", id, "")
    /\ UNCHANGED <<ApiFrame, fault, registered, unmatched_pop>>

ApiPopId ==
    /\ pc = "direct"
    /\ ctx' = pop_id(ctx)
    /\ fault' = (fault \/ pop_id_panics(ctx))
    /\ unmatched_pop' = (unmatched_pop \/ Len(view_path(ctx)) = 0)
    /\ last' = Did("pop_id", 0, IF Len(view_path(ctx)) = 0 THEN "unmatched" ELSE "")
    /\ UNCHANGED <<ApiFrame, registered>>

ApiMarkChanged ==
    /\ pc = "direct"
    /\ ctx' = mark_changed(ctx)
    /\ last' = Did("mark_changed", 0, "")
    /\ UNCHANGED <<ApiFrame, fault, registered, unmatched_pop>>

\* The closure returns a Pod whose identity the toolkit assigned.
ApiWithActionWidget ==
    /\ pc = "direct"
    /\ \E id \in ApiIds :
          /\ ctx' = with_action_widget(ctx, Pod(id, "Button"))
          /\ registered' = registered \cup {id}
          /\ last' = Did("with_action_widget", id, "")
    /\ UNCHANGED <<ApiFrame, fault, unmatched_pop>>

ApiTeardownLeaf ==
    /\ pc = "direct"
    /\ \E id \in ApiIds :
          /\ ctx' = teardown_leaf(ctx, Pod(id, "Button"))
          /\ registered' = registered \ {id}
          /\ last' = Did("teardown_leaf", id, "")
    /\ UNCHANGED <<ApiFrame, fault, unmatched_pop>>

NextApi ==
    \/ ApiPushId
    \/ ApiPopId
    \/ ApiMarkChanged
    \/ ApiWithActionWidget
    \/ ApiTeardownLeaf

SpecApi == InitApi /\ [][NextApi]_vars

(***************************************************************************)
(* The element bridge: Pod<W>, its upcast to Pod<Box<dyn Widget>> and the   *)
(* downcast of the uniform element for one mutation.  A widget carries a    *)
(* content value so that a mutation, and a copy, can be told apart.         *)
(***************************************************************************)
Types == {"Button", "Label"}

Vals == 0..MaxVal

\* Pod::new(widget): WidgetPod::new assigns the identity.
PodNew(id, ty, val) == [id |-> id, ty |-> ty, val |-> val, boxed |-> FALSE]

\* Faulty variant: the boxed widget is wrapped in a new WidgetPod, which draws
\* a new identity.
upcast_rewraps(child) ==
    [id |-> (child.id % MaxWidgetId) + 1, ty |-> child.ty, val |-> child.val,
     boxed |-> TRUE, st |-> "Built"]

\* SuperElement::upcast: child.inner.boxed().into(); the WidgetPod, and with
\* it the identity and the widget, moves into the uniform element.
upcast(child) ==
    [id |-> child.id, ty |-> child.ty, val |-> child.val, boxed |-> TRUE,
     st |-> "Built"]

\* WidgetMut::downcast: a mutable handle of the concrete type on the same
\* widget, or a panic when the widget is of another type.
downcast(this, W) ==
    IF this.ty = W
    THEN [ok |-> TRUE, widget |-> [id |-> this.id, ty |-> this.ty, val |-> this.val]]
    ELSE [ok |-> FALSE, widget |-> [id |-> this.id, ty |-> W, val |-> this.val]]

\* The caller-supplied operations: each returns the widget it was handed and
\* may change the widget's content through the handle.
Fs == {"inc", "keep"}

FVal(f, val) == IF f = "inc" THEN (val + 1) % (MaxVal + 1) ELSE val

Apply(f, widget) == [widget |-> [widget EXCEPT !.val = FVal(f, @)], ret |-> widget]

\* Faulty variant: the operation is run on the handle whatever the type is.
with_downcast_val_unchecked(this, W, f) ==
    LET r == Apply(f, downcast(this, W).widget)
    IN [this |-> [this EXCEPT !.val = r.widget.val], ret |-> r.ret, panic |-> FALSE]

\* SuperElement::with_downcast_val: let downcast = this.downcast();
\* let ret = f(downcast); (this, ret).
with_downcast_val(this, W, f) ==
    LET d == downcast(this, W)
    IN IF ~d.ok
       THEN [this |-> this, ret |-> d.widget, panic |-> TRUE]
       ELSE LET r == Apply(f, d.widget)
            IN [this |-> [this EXCEPT !.val = r.widget.val], ret |-> r.ret,
                panic |-> FALSE]

\* The context of a running driver, no element built yet and no call made.
InitCast ==
    /\ pc = "direct"
    /\ result = <<>>
    /\ resource_failure = "none"
    /\ debug_assertions \in BOOLEAN
    /\ ctx = NewViewCtx("MasonryProxy", "tokio")
    /\ state = NoView
    /\ current_view = NoView
    /\ next_view = NoView
    /\ elems = EmptyMap
    /\ next_id = 1
    /\ queue = <<>>
    /\ tasks = {}
    /\ phase = "idle"
    /\ pending = <<>>
    /\ entry_len = 0
    /\ fault = FALSE
    /\ registered = {}
    /\ logic_invoked = FALSE
    /\ last = Did("init", 0, <<>>)
    /\ unmatched_pop = FALSE
    /\ snap = EmptyMap

\* A view builds a concrete element under its ViewId, registering it when it
\* is an action widget, and hands it to its parent as the uniform element.
CastBuild ==
    /\ pc = "direct"
    /\ next_id <= MaxWidgetId
    /\ \E vid \in ViewIds, ty \in Types, val \in Vals :
          LET child == PodNew(next_id, ty, val)
              c1 == push_id(ctx, vid)
              c2 == IF ty = "Button" THEN with_action_widget(c1, child) ELSE c1
          IN /\ view_path(c1) \notin DOMAIN elems
             /\ ctx' = pop_id(c2)
             /\ elems' = insert(elems, view_path(c1), upcast(child))
             /\ registered' = IF ty = "Button" THEN registered \cup {child.id}
                                                ELSE registered
             /\ last' = Did("upcast", child.id, <<child>>)
    /\ next_id' = next_id + 1
    /\ UNCHANGED <<pc, result, resource_failure, debug_assertions, state, current_view,
                   next_view, queue, tasks, phase, pending, entry_len, logic_invoked,
                   snap, fault, unmatched_pop>>

\* The parent rebuilds the child through the uniform element, expecting the
\* concrete type W.
CastDowncast ==
    /\ pc = "direct"
    /\ \E p \in DOMAIN elems, W \in Types, f \in Fs :
          LET r == with_downcast_val(elems[p], W, f)
          IN /\ last' = Did("with_downcast_val", elems[p].id, <<p, W, f>>)
             /\ IF r.panic
                THEN /\ fault' = TRUE
                     /\ pc' = "aborted"
                     /\ UNCHANGED <<elems, result>>
                ELSE /\ elems' = [elems EXCEPT ![p] = r.this]
                     /\ result' = <<r.this, r.ret>>
                     /\ UNCHANGED <<fault, pc>>
    /\ UNCHANGED <<resource_failure, debug_assertions, ctx, state, current_view,
                   next_view, next_id, queue, tasks, phase, pending, entry_len,
                   logic_invoked, snap, registered, unmatched_pop>>

\* The parent tears the child down through the uniform element and drops it.
CastTeardown ==
    /\ pc = "direct"
    /\ \E p \in DOMAIN elems :
          LET c1 == push_id(ctx, p[1])
              c2 == IF ActionCapable(elems[p]) THEN teardown_leaf(c1, elems[p]) ELSE c1
          IN /\ ctx' = pop_id(c2)
             /\ elems' = remove(elems, p)
             /\ registered' = registered \ {elems[p].id}
             /\ last' = Did("teardown", elems[p].id, p)
    /\ UNCHANGED <<pc, result, resource_failure, debug_assertions, state, current_view,
                   next_view, next_id, queue, tasks, phase, pending, entry_len,
                   logic_invoked, snap, fault, unmatched_pop>>

NextCast ==
    \/ CastBuild
    \/ CastDowncast
    \/ CastTeardown

SpecCast == InitCast /\ [][NextCast]_vars

(***************************************************************************)
(* Identity reuse.  The toolkit may hand a new widget any identity that no  *)
(* live widget holds, the identity of a destroyed widget included.  Owners  *)
(* are the positions below the root; events in flight carry an identity.    *)
(* Here snap remembers the identity and position of the owner destroyed     *)
(* last, and result is the route the last delivery took.                    *)
(***************************************************************************)
LiveIds == {elems[p].id : p \in DOMAIN elems}

OwnerOf(id) == {p \in DOMAIN elems : elems[p].id = id}

InitReuse ==
    /\ pc = "direct"
    /\ result = <<>>
    /\ resource_failure = "none"
    /\ debug_assertions \in BOOLEAN
    /\ ctx = NewViewCtx("MasonryProxy", "tokio")
    /\ state = NoView
    /\ current_view = NoView
    /\ next_view = NoView
    /\ elems = EmptyMap
    /\ next_id = 1
    /\ queue = <<>>
    /\ tasks = {}
    /\ phase = "idle"
    /\ pending = <<>>
    /\ entry_len = 0
    /\ fault = FALSE
    /\ registered = {}
    /\ logic_invoked = FALSE
    /\ last = Did("init", 0, "")
    /\ unmatched_pop = FALSE
    /\ snap = EmptyMap

ReuseFrame == <<pc, resource_failure, debug_assertions, state, current_view, next_view,
                next_id, tasks, phase, pending, entry_len, logic_invoked, fault,
                unmatched_pop>>

\* A view builds an action widget under its ViewId; the toolkit gives the
\* widget an identity that is free.
ReuseBuild ==
    /\ pc = "direct"
    /\ \E vid \in ViewIds, id \in WidgetIds \ LiveIds :
          LET value == Pod(id, "Button")
              c1 == push_id(ctx, vid)
          IN /\ view_path(c1) \notin DOMAIN elems
             /\ ctx' = pop_id(with_action_widget(c1, value))
             /\ elems' = insert(elems, view_path(c1), Element(value))
             /\ registered' = registered \cup {id}
             /\ last' = Did("with_action_widget", id, "")
    /\ UNCHANGED <<ReuseFrame, queue, result, snap>>

\* The view is torn down and its widget destroyed, which frees the identity.
ReuseTeardown ==
    /\ pc = "direct"
    /\ \E p \in DOMAIN elems :
          /\ ctx' = pop_id(teardown_leaf(push_id(ctx, p[1]), elems[p]))
          /\ elems' = remove(elems, p)
          /\ registered' = registered \ {elems[p].id}
          /\ snap' = insert(EmptyMap, elems[p].id, p)
          /\ last' = Did("teardown_leaf", elems[p].id, "")
    /\ UNCHANGED <<ReuseFrame, queue, result>>

\* A live widget emits an event; it waits in the queue.
ReuseEmit ==
    /\ pc = "direct"
    /\ Len(queue) < MaxInFlight
    /\ \E id \in LiveIds :
          /\ queue' = Append(queue, Event("toolkit", id))
          /\ last' = Did("toolkit_event", id, "")
    /\ UNCHANGED <<ReuseFrame, ctx, elems, registered, result, snap>>

\* The driver delivers the oldest event along the path the table gives.
ReuseDeliver ==
    /\ pc = "direct"
    /\ queue # <<>>
    /\ result' = Lookup(Head(queue).id)
    /\ last' = Did("deliver_toolkit", Head(queue).id,
                   IF Lookup(Head(queue).id) = <<>> THEN "Stale" ELSE "Routed")
    /\ queue' = Tail(queue)
    /\ UNCHANGED <<ReuseFrame, ctx, elems, registered, snap>>

NextReuse ==
    \/ ReuseBuild
    \/ ReuseTeardown
    \/ ReuseEmit
    \/ ReuseDeliver

SpecReuse == InitReuse /\ [][NextReuse]_vars

(***************************************************************************)
(* Properties.                                                              *)
(***************************************************************************)
Under(p, id) == IsPrefix(p, ctx.widget_map[id])

Count(S) == Cardinality(S)

PathsOf(ids) == {ctx.widget_map[id] : id \in ids}

\* Identities the toolkit has handed out to action widgets that are gone.
TornDownIds == {id \in 1..(next_id - 1) : id \notin LiveActionIds}

Pushes(ops) == Count({i \in 1..Len(ops) : ops[i].op = "push_id"})

Pops(ops) == Count({i \in 1..Len(ops) : ops[i].op = "pop_id"})

\* The first identity handed out by the running pass.
PassFirstId ==
    next_id - (NumBuilds(RootRebuildOps(current_view, next_view)) - NumBuilds(pending))

\* The paths at which variant k of slot s registers action widgets.
ActionPaths(s, k) ==
    CASE k = "A" -> {<<s>>}
      [] k = "B" -> {<<s, 1>>}
      [] OTHER -> {}

\* C1: in every reachable state the keys of widget_map are exactly the
\* identities registered through with_action_widget and not since torn down
\* through teardown_leaf, which are exactly the identities of the built
\* action widgets of the retained element tree; every entry's path leads to
\* the built element that has the entry's identity.
C1_TableMatchesLiveWidgets ==
    /\ DOMAIN ctx.widget_map = registered
    /\ DOMAIN ctx.widget_map = LiveActionIds
    /\ \A id \in DOMAIN ctx.widget_map :
          /\ ctx.widget_map[id] \in DOMAIN elems
          /\ elems[ctx.widget_map[id]].id = id
          /\ elems[ctx.widget_map[id]].st = "Built"

C1_Witness ==
    /\ pc = "running" /\ phase = "idle" /\ last.op = "end_pass"
    /\ DOMAIN ctx.widget_map # {}
    /\ \E id \in 1..(next_id - 1) : id \notin DOMAIN ctx.widget_map /\ id \notin
          {elems[p].id : p \in DOMAIN elems}
    /\ \E id \in DOMAIN ctx.widget_map : Len(ctx.widget_map[id]) > 1

\* C2: delivering an event whose identity belongs to a widget that has been
\* torn down finds no entry in the routing table, is reported Stale, raises
\* no panic, leaves the application state, the context and the element tree
\* unchanged and starts no pass.
C2_StaleDeliveryIsNoOp ==
    [][(/\ queue # <<>>
        /\ queue' = Tail(queue)
        /\ last'.op \in DeliverOps
        /\ Head(queue).id \in TornDownIds)
       => (/\ Head(queue).id \notin DOMAIN ctx.widget_map
           /\ last'.res = "Stale"
           /\ state' = state
           /\ ctx' = ctx
           /\ elems' = elems
           /\ current_view' = current_view
           /\ phase' = "idle"
           /\ pending' = <<>>
           /\ fault' = fault
           /\ pc' = "running")]_vars

C2_Witness ==
    /\ last.op = "deliver_async" /\ last.res = "Stale"
    /\ last.id \in TornDownIds
    /\ pc = "running" /\ ~fault

\* C3: when a build, rebuild or teardown call has completed, by returning or
\* by a panic, the path stack has the length it had at the call's entry; while
\* a pass runs, the pushes made so far and not yet popped are exactly those
\* the rest of the traversal pops, and no pop finds the stack empty.
C3_PathStackBalanced ==
    /\ phase = "idle" => Len(view_path(ctx)) = entry_len
    /\ phase = "pass" =>
          Len(view_path(ctx)) = entry_len + Pops(pending) - Pushes(pending)
    /\ phase = "unwind" => Len(view_path(ctx)) >= entry_len
    /\ ~unmatched_pop

C3_Witness ==
    /\ pc = "aborted" /\ fault /\ last.op = "abort"
    /\ Len(view_path(ctx)) = entry_len
    /\ DOMAIN ctx.widget_map # {}

\* C4: when the teardown of a slot's subtree has completed and its element is
\* dropped, the routing table is the table the pass found on entering the slot
\* minus exactly the entries whose path lies in that subtree: every other
\* entry is present with the same path.
C4_TeardownRemovesSubtreeEntries ==
    (phase = "pass" /\ last.op = "drop") =>
        LET p == view_path(ctx)
            owned == {id \in DOMAIN snap : IsPrefix(p, snap[id])}
        IN /\ DOMAIN ctx.widget_map = (DOMAIN snap) \ owned
           /\ \A id \in DOMAIN ctx.widget_map : ctx.widget_map[id] = snap[id]
           /\ Count(DOMAIN ctx.widget_map) = Count(DOMAIN snap) - Count(owned)

C4_Witness ==
    /\ phase = "pass" /\ last.op = "drop"
    /\ \E id \in DOMAIN snap : IsPrefix(view_path(ctx), snap[id])
    /\ DOMAIN ctx.widget_map # {}

\* C5: in a pass that changes the variant of a slot, as soon as any element
\* of the new variant exists in the slot no element and no routing entry of
\* the old variant is left in it, and when the pass has made its last call the
\* entries of the slot are exactly those of the new variant's action widgets,
\* all registered in this pass.
C5_VariantSwitch ==
    \A s \in Slots :
        (pc = "running" /\ phase = "pass" /\ current_view[s] # next_view[s]) =>
            LET inSlot == {p \in DOMAIN elems : IsPrefix(<<s>>, p)}
                entries == {id \in DOMAIN ctx.widget_map : Under(<<s>>, id)}
            IN /\ (\E p \in inSlot : elems[p].id >= PassFirstId) =>
                     /\ \A p \in inSlot : elems[p].id >= PassFirstId
                     /\ \A id \in entries : id >= PassFirstId
               /\ pending = <<>> =>
                     /\ PathsOf(entries) = ActionPaths(s, next_view[s])
                     /\ \A id \in entries : id >= PassFirstId

C5_Witness ==
    /\ pc = "running" /\ phase = "pass" /\ pending = <<>>
    /\ current_view[1] = "A" /\ next_view[1] = "B"
    /\ \E id \in DOMAIN ctx.widget_map : ctx.widget_map[id] = <<1, 1>>

\* C6: with_action_widget maps the identity of the element it is given to the
\* path that is current at the call and leaves the path stack as it is; a
\* later push_id or pop_id changes no entry of the table.
C6_PathSnapshot ==
    [][/\ last'.op = "with_action_widget" =>
            /\ last'.id \in DOMAIN ctx'.widget_map
            /\ ctx'.widget_map[last'.id] = ctx.id_path
            /\ ctx'.id_path = ctx.id_path
       /\ last'.op \in {"push_id", "pop_id"} => ctx'.widget_map = ctx.widget_map]_vars

C6_Witness ==
    /\ last.op \in {"push_id", "pop_id"}
    /\ \E id \in DOMAIN ctx.widget_map :
          /\ Len(ctx.widget_map[id]) = MaxPathLen
          /\ ctx.widget_map[id] # view_path(ctx)

\* C7: teardown_leaf removes the entry of the given identity and nothing
\* else: the other entries keep identity and path, the path stack and the
\* tree-changed flag are unchanged, no panic is raised, and for an identity
\* without entry the context is unchanged.
C7_TeardownLeafFrame ==
    [][last'.op = "teardown_leaf" =>
          /\ DOMAIN ctx'.widget_map = (DOMAIN ctx.widget_map) \ {last'.id}
          /\ \A k \in DOMAIN ctx'.widget_map : ctx'.widget_map[k] = ctx.widget_map[k]
          /\ ctx'.id_path = ctx.id_path
          /\ ctx'.view_tree_changed = ctx.view_tree_changed
          /\ fault' = fault
          /\ (last'.id \notin DOMAIN ctx.widget_map => ctx' = ctx)]_vars

C7_Witness ==
    /\ last.op = "teardown_leaf"
    /\ DOMAIN ctx.widget_map # {}
    /\ view_path(ctx) # <<>>
    /\ ctx.view_tree_changed

\* C8 (as claimed): a pop_id with no matching push_id raises a panic.
C8_UnmatchedPopFaults == unmatched_pop => fault

\* C9 (as claimed): a resource-class failure reaches the caller of the run
\* entry point as a typed failure value, and application logic is not invoked.
C9_ResourceFailureIsTyped ==
    resource_failure # "none" =>
        /\ result = "Err(EventLoopError)"
        /\ ~logic_invoked
        /\ pc \notin {"running", "aborted"}

\* C10: events leave the queue from its head, one at a time and only while no
\* pass is running; while a pass runs the queue only grows at its tail and the
\* view being rebuilt to does not change; a task completion changes neither
\* the context nor the element tree.
C10_OneEventAtATime ==
    [][/\ queue' # queue =>
            \/ /\ queue # <<>> /\ queue' = Tail(queue)
               /\ last'.op \in DeliverOps /\ last'.id = Head(queue).id
               /\ phase = "idle"
            \/ /\ Len(queue') = Len(queue) + 1
               /\ SubSeq(queue', 1, Len(queue)) = queue
       /\ phase # "idle" =>
            /\ Len(queue') >= Len(queue)
            /\ next_view' = next_view /\ state' = state /\ entry_len' = entry_len
            /\ phase' = "pass" =>
                  \/ pending' = pending
                  \/ pending # <<>> /\ pending' = Tail(pending)
       /\ last'.op \in {"task_complete", "toolkit_event"} =>
            ctx' = ctx /\ elems' = elems /\ pending' = pending]_vars

C10_Witness ==
    /\ phase = "pass" /\ pending # <<>>
    /\ Len(queue) = MaxQueue
    /\ last.op = "task_complete"

TeardownOpNames == {"teardown_leaf", "teardown_plain"}

\* The slot the pass is in.
CurSlot == view_path(ctx)[1]

\* C11: every position goes Absent -> Built -> TornDown -> Absent.  A step
\* that rebuilds or tears down finds a Built element at the current path; a
\* teardown happens only in a pass that changes the slot's variant and turns
\* exactly that element TornDown; an occupancy keeps its identity while it is
\* there; an element appears Built, is never Built again once TornDown, and is
\* dropped only when TornDown with its routing entry released.
C11_Lifecycle ==
    [][/\ (phase = "pass" /\ last'.op \in TeardownOpNames \cup {"rebuild"}) =>
            /\ view_path(ctx) \in DOMAIN elems
            /\ elems[view_path(ctx)].st = "Built"
       /\ (phase = "pass" /\ last'.op \in TeardownOpNames) =>
            /\ current_view[CurSlot] # next_view[CurSlot]
            /\ elems'[view_path(ctx)].st = "TornDown"
            /\ \A p \in (DOMAIN elems) \ {view_path(ctx)} :
                  p \in DOMAIN elems' /\ elems'[p] = elems[p]
       /\ \A p \in DOMAIN elems' :
            IF p \in DOMAIN elems
            THEN /\ elems'[p].id = elems[p].id
                 /\ elems[p].st = "TornDown" => elems'[p].st = "TornDown"
            ELSE elems'[p].st = "Built"
       /\ \A p \in (DOMAIN elems) \ (DOMAIN elems') :
            /\ elems[p].st = "TornDown"
            /\ elems[p].id \notin DOMAIN ctx.widget_map
            /\ last'.op = "drop"]_vars

C11_Witness ==
    /\ pc = "running" /\ phase = "pass" /\ last.op = "drop"
    /\ ctx.view_tree_changed = FALSE
    /\ \E id \in 1..(next_id - 1) : id \notin {elems[p].id : p \in DOMAIN elems}
    /\ \E p \in DOMAIN elems : elems[p].st = "Built"

\* The slot a step of a pass works in: the first component of the path
\* before the step, or after it when the step is the slot's own push_id.
StepSlot == IF view_path(ctx) # <<>> THEN view_path(ctx)[1] ELSE view_path(ctx')[1]

InUnchangedSlot ==
    /\ phase = "pass" /\ phase' = "pass"
    /\ view_path(ctx) # <<>> \/ view_path(ctx') # <<>>
    /\ current_view[StepSlot] = next_view[StepSlot]

\* C12: rebuilding a node whose view value equals the previous cycle's
\* changes no element, and leaves the tree-changed flag and the routing table
\* as they were; the only calls made are push_id, rebuild and pop_id, and when
\* the whole view is unchanged the pass ends with the path stack empty as it
\* was when the pass began, so repeating the pass yields the same state.
C12_NoOpRebuild ==
    [][/\ InUnchangedSlot =>
            /\ elems' = elems
            /\ ctx'.widget_map = ctx.widget_map
            /\ ctx'.view_tree_changed = ctx.view_tree_changed
            /\ pending' # pending => last'.op \in {"push_id", "rebuild", "pop_id"}
       /\ (phase = "pass" /\ current_view = next_view /\ pending' = <<>>) =>
            /\ view_path(ctx') = <<>>
            /\ elems' = elems
            /\ ctx'.widget_map = ctx.widget_map
            /\ ctx'.view_tree_changed = ctx.view_tree_changed]_vars

C12_Witness ==
    /\ pc = "running" /\ phase = "pass" /\ pending = <<>>
    /\ current_view = next_view
    /\ debug_assertions /\ ~ctx.view_tree_changed
    /\ last.op = "pop_id"
    /\ view_path(ctx) = <<>>
    /\ ctx.widget_map # EmptyMap

\* C14: a mark_changed call sets the tree-changed flag in a debug build and
\* leaves it at its prior value in a release build; in both builds the path
\* stack, the routing table, the proxy and the runtime are left as they were.
C14_MarkChangedFrame ==
    [][last'.op = "mark_changed" =>
          /\ ctx'.view_tree_changed =
                 (IF debug_assertions THEN TRUE ELSE ctx.view_tree_changed)
          /\ ctx'.id_path = ctx.id_path
          /\ ctx'.widget_map = ctx.widget_map
          /\ ctx'.proxy = ctx.proxy
          /\ ctx'.runtime = ctx.runtime]_vars

\* A release build after mark_changed, with a path and an entry in place.
C14_Witness ==
    /\ pc = "direct" /\ last.op = "mark_changed"
    /\ ~debug_assertions /\ ~ctx.view_tree_changed
    /\ ctx.id_path # <<>>
    /\ ctx.widget_map # EmptyMap

ActionElemPaths(e) == {p \in DOMAIN e : ActionCapable(e[p])}

\* C15: the step in which into_driver completes invokes logic once, builds
\* each node of that view once with a context that started empty (so the
\* table holds the entries of this build and nothing else, the path stack is
\* empty and the flag false) and keeps the view as the previous one.  From
\* then on the same context is used: its proxy and runtime never change, the
\* delivery that opens a cycle leaves context, elements and previous view as
\* they are and schedules the rebuild against the kept view, so every entry
\* of the first build is there when the second cycle starts; and a build is
\* only ever made at a position that holds no element.
C15_DriverCreation ==
    [][/\ (pc = "constructed" /\ pc' = "running") =>
            /\ last'.id = 1
            /\ ~logic_invoked /\ logic_invoked'
            /\ current_view' = logic(state) /\ state' = state
            /\ view_path(ctx') = <<>>
            /\ ~ctx'.view_tree_changed
            /\ next_id' = next_id + NumBuilds(RootBuildOps(current_view'))
            /\ Cardinality(DOMAIN elems') = NumBuilds(RootBuildOps(current_view'))
            /\ \A p \in DOMAIN elems' :
                  /\ elems'[p].st = "Built"
                  /\ elems'[p].id \in next_id..(next_id' - 1)
                  /\ \A q \in DOMAIN elems' : elems'[q].id = elems'[p].id => q = p
            /\ DOMAIN ctx'.widget_map =
                  {elems'[p].id : p \in ActionElemPaths(elems')}
            /\ \A p \in ActionElemPaths(elems') : ctx'.widget_map[elems'[p].id] = p
       /\ pc = "running" =>
            /\ pc' \in {"running", "aborted"}
            /\ ctx'.proxy = ctx.proxy /\ ctx'.runtime = ctx.runtime
       /\ (pc = "running" /\ phase = "idle" /\ phase' = "pass") =>
            /\ ctx' = ctx /\ elems' = elems /\ current_view' = current_view
            /\ pending' = RootRebuildOps(current_view, next_view')
       /\ (phase = "pass" /\ pending' # pending
             /\ last'.op \in {"build_action", "build_plain"}) =>
            view_path(ctx) \notin DOMAIN elems]_vars

\* The second cycle has just been opened and the entries of the first build
\* are in the table.
C15_Witness ==
    /\ pc = "running" /\ phase = "pass"
    /\ last.op \in DeliverOps
    /\ pending = RootRebuildOps(current_view, next_view)
    /\ next_id = 1 + Cardinality(DOMAIN elems)
    /\ ~ctx.view_tree_changed
    /\ ActionElemPaths(elems) # {}
    /\ \A p \in ActionElemPaths(elems) :
          /\ elems[p].id \in DOMAIN ctx.widget_map
          /\ ctx.widget_map[elems[p].id] = p

\* C16: when rebuild or teardown runs for a node, the path current on the
\* context is the path that was current when the node was built (the key its
\* element is filed under), and for a registered leaf it is the path stored in
\* the table at registration; every stored path addresses the Built element
\* of that identity, in every cycle; and between cycles the path stack is
\* empty.
C16_PathStableAcrossCycles ==
    [][/\ (phase = "pass" /\ pending' # pending
             /\ last'.op \in TeardownOpNames \cup {"rebuild"}) =>
            /\ view_path(ctx) \in DOMAIN elems
            /\ ActionCapable(elems[view_path(ctx)]) =>
                  /\ elems[view_path(ctx)].id \in DOMAIN ctx.widget_map
                  /\ ctx.widget_map[elems[view_path(ctx)].id] = view_path(ctx)
       /\ \A id \in DOMAIN ctx'.widget_map :
            /\ ctx'.widget_map[id] \in DOMAIN elems'
            /\ elems'[ctx'.widget_map[id]].id = id
            /\ elems'[ctx'.widget_map[id]].st = "Built"
       /\ (pc' = "running" /\ phase' = "idle") => view_path(ctx') = <<>>]_vars

\* A nested leaf built in an earlier cycle has just been rebuilt at the path
\* it was registered under.
C16_Witness ==
    /\ pc = "running" /\ phase = "pass" /\ last.op = "rebuild"
    /\ Len(view_path(ctx)) = 2
    /\ view_path(ctx) \in DOMAIN elems
    /\ ActionCapable(elems[view_path(ctx)])
    /\ ctx.widget_map[elems[view_path(ctx)].id] = view_path(ctx)
    /\ next_id > 1 + Cardinality(DOMAIN elems)

\* C13: a with_downcast_val call on a uniform element whose widget is of the
\* expected type does not fault, applies the operation once to that widget
\* (the operation is handed the widget as it was, and the element afterwards
\* holds the content the operation left) and returns the same handle with the
\* operation's result; when the type does not match the call faults, and the
\* element is as it was, the operation not having run on it.  No other
\* element and nothing of the context is touched.
C13_DowncastForMutation ==
    [][last'.op = "with_downcast_val" =>
          LET p == last'.res[1]
              W == last'.res[2]
              f == last'.res[3]
              e == elems[p]
          IN /\ p \in DOMAIN elems /\ e.id = last'.id
             /\ ctx' = ctx
             /\ \A q \in (DOMAIN elems) \ {p} : q \in DOMAIN elems' /\ elems'[q] = elems[q]
             /\ IF e.ty = W
                THEN /\ ~fault' /\ pc' = "direct"
                     /\ elems'[p] = [e EXCEPT !.val = FVal(f, e.val)]
                     /\ result'[1] = elems'[p]
                     /\ result'[2] = [id |-> e.id, ty |-> W, val |-> e.val]
                ELSE /\ fault' /\ pc' = "aborted" /\ result' = result
                     /\ elems' = elems]_vars

\* A matching downcast has just run an operation that changed the widget.
C13_Witness ==
    /\ pc = "direct" /\ last.op = "with_downcast_val" /\ ~fault
    /\ last.res[3] = "inc"
    /\ elems[last.res[1]].val = FVal("inc", result[2].val)
    /\ elems[last.res[1]].val # result[2].val
    /\ Cardinality(DOMAIN elems) = 2

====
